---- MODULE Spec2Model ----
(***************************************************************************)
(* Model of the processor's webhook-gated commit pipeline:                 *)
(*   services/processor/state_store.py    the locked, atomically written   *)
(*                                         JSON state file (the ledger)    *)
(*   services/processor/processor.py      the poll loop, the finalizer,    *)
(*                                         the submission of each CSV      *)
(*   services/processor/webhook_server.py the callback receiver            *)
(* processor.py main() and the webhook server share the state file; the    *)
(* bucket, the XML service and the clock are the environment. A            *)
(* transaction of main() is taken step by step (lock and load, mutator,    *)
(* temporary file, replace and unlock); the webhook handler's transaction  *)
(* is one step, taken when the lock is free. Of an outcome in              *)
(* ingest_results the model keeps status and error, of a pending entry     *)
(* request_id and source_key, of an event status and error.                *)
(*                                                                         *)
(* Specifications:                                                         *)
(*   Spec         two crawler parts, callbacks of the XML service          *)
(*   KeySpec      two keys whose safe_key is the same                      *)
(*   HookSpec     one part, any body posted to the webhook                 *)
(*   LockSpec     one part, the webhook handler step by step, seconds      *)
(*                spent waiting in flock                                   *)
(*   DamageSpec   one part, a state file that json.load cannot read        *)
(*   WeatherSpec  weather_client.py under the mapping passes of            *)
(*                write_mapped_csv                                         *)
(*   NestedSpec   two keys whose base name is the same                     *)
(*   LiveSpec     one part, main() and the webhook under fair scheduling   *)
(*   SharedSpec   the webhook alone, no state file yet, writes that fail   *)
(*   RateSpec     fetch_fx_eur_usd over the outcomes of its two calls      *)
(***************************************************************************)
EXTENDS Integers, Sequences, FiniteSets, TLC

(***************************************************************************)
(* Bounds and the objects of the bucket.                                   *)
(***************************************************************************)

\* Seconds of wall clock the model distinguishes (strftime("%Y%m%d_%H%M%S")).
MaxClock == 1

\* Distinct request ids the XML service receives in a run.
MaxRequests == 2

\* Keys as the crawler writes them: f"{INCOMING_PREFIX}incidents_28998_{ts}_part{idx:04d}.csv",
\* kept as token sequences so that replace() and basename() are computed, not assumed.
KeyA == <<"incoming", "/", "incidents_28998_t_part0001", ".csv">>

KeyB == <<"incoming", "/", "incidents_28998_t_part0002", ".csv">>

Keys == {KeyA, KeyB}

NoKey == <<>>

IN_PREFIX == <<"incoming", "/">>

OUT_PREFIX == <<"processed", "/">>

\* The JSON bodies the XML service posts to the webhook: status and optional error.
Payloads ==
    { [status |-> "OK", error |-> "None"],
      [status |-> "ERROR", error |-> "schema mismatch"] }

(***************************************************************************)
(* Pure helpers.                                                           *)
(***************************************************************************)

RECURSIVE SeqToSet(_)
SeqToSet(s) == IF s = <<>> THEN {} ELSE {Head(s)} \cup SeqToSet(Tail(s))

\* dict.pop(k, None) / del on a mapping kept as a function
MapRemove(f, ks) == [x \in (DOMAIN f) \ ks |-> f[x]]

\* d[k] = v
MapPut(f, k, v) == [x \in (DOMAIN f) \cup {k} |-> IF x = k THEN v ELSE f[x]]

EmptyMap == <<>>

\* str.upper() on the status values that occur
Upper(s) ==
    CASE s = "ok" -> "OK"
      [] s = "error" -> "ERROR"
      [] OTHER -> s

\* source_key.replace("/", "_").replace(":", "_")
SafeKey(key) ==
    [i \in DOMAIN key |-> IF key[i] \in {"/", ":"} THEN "_" ELSE key[i]]

\* f"{prefix}_{safe_key}_{ts}": the prefix is fixed, the id is the pair
RequestId(key, ts) == [safe |-> SafeKey(key), ts |-> ts]

RECURSIVE LastSlash(_, _)
LastSlash(key, i) ==
    IF i = 0 THEN 0
    ELSE IF key[i] = "/" THEN i ELSE LastSlash(key, i - 1)

\* os.path.basename(key).replace(".csv", "")
BaseName(key) ==
    LET from == LastSlash(key, Len(key)) + 1
        tail == IF from > Len(key) THEN <<>> ELSE SubSeq(key, from, Len(key))
    IN  SelectSeq(tail, LAMBDA t : t # ".csv")

\* f"{OUT_PREFIX}{base_name}_mapped.csv"
OutKey(key) == OUT_PREFIX \o BaseName(key) \o <<"_mapped", ".csv">>

EndsWithCsv(key) == Len(key) > 0 /\ key[Len(key)] = ".csv"

\* INIT_STATE of processor.py and webhook_server.py, after the setdefault lines
INIT_STATE ==
    [ processed_keys |-> <<>>,
      ingest_results |-> EmptyMap,
      pending_ingests |-> <<>>,
      webhook_events |-> EmptyMap ]

Rids == { RequestId(k, t) : k \in Keys, t \in 0..MaxClock }

PendingRids(led) == { led.pending_ingests[i].request_id : i \in DOMAIN led.pending_ingests }

PendingKeys(led) == { led.pending_ingests[i].source_key : i \in DOMAIN led.pending_ingests }

(***************************************************************************)
(* finalize_ready_ingests._tx, as a function of the loaded state.          *)
(***************************************************************************)

\* A status that is JSON but no string and not falsy (a number such as 500, true,
\* a non-empty list or object): the webhook stores it as it comes.
JsonNumber == "<number 500>"

\* line 443: (ev.get("status") or "").upper() raises AttributeError for a value
\* that is truthy and has no method upper
StatusRaises(ev) == ev.status = JsonNumber

\* variant: the status of the event is not looked at
IsOk_any(ev) == TRUE

\* status == "OK" after (ev.get("status") or "").upper()
IsOk(ev) == Upper(ev.status) = "OK"

UploadOp(key) == [op |-> "upload", key |-> key]

DeleteOp(key) == [op |-> "delete", key |-> key]

\* variant: the if branch forgets processed_keys
FinalizeOk_unmarked(acc, rid, key, ev) ==
    [ acc EXCEPT
        !.ops = @ \o <<UploadOp(key), DeleteOp(key)>>,
        !.ingest_results =
            MapPut(@, key, [status |-> "OK", error |-> "None"]),
        !.done = @ \cup {rid} ]

\* the if branch: upload_processed_csv, delete_original, processed_keys, ingest_results
FinalizeOk(acc, rid, key, ev) ==
    [ acc EXCEPT
        !.ops = @ \o <<UploadOp(key), DeleteOp(key)>>,
        !.processed_keys =
            IF key \in SeqToSet(@) THEN @ ELSE Append(@, key),
        !.ingest_results =
            MapPut(@, key, [status |-> "OK", error |-> "None"]),
        !.done = @ \cup {rid} ]

\* variant: the failure outcome does not carry the event's error
FinalizeError_noerror(acc, rid, key, ev) ==
    [ acc EXCEPT
        !.ingest_results =
            MapPut(@, key, [status |-> Upper(ev.status), error |-> "None"]),
        !.done = @ \cup {rid} ]

\* variant: a rejected entry is kept pending, to wait for another callback
FinalizeError_wait(acc, rid, key, ev) ==
    [ acc EXCEPT
        !.ingest_results =
            MapPut(@, key, [status |-> Upper(ev.status), error |-> ev.error]) ]

\* the else branch: only ingest_results
FinalizeError(acc, rid, key, ev) ==
    [ acc EXCEPT
        !.ingest_results =
            MapPut(@, key, [status |-> Upper(ev.status), error |-> ev.error]),
        !.done = @ \cup {rid} ]

\* the loop "for request_id, pinfo in list(pending.items())", in dict order; an
\* exception at line 443 ends it (and the mutator) at that entry
RECURSIVE FinalizeLoop(_, _, _, _)
FinalizeLoop(pending, events, i, acc) ==
    IF i > Len(pending) THEN acc
    ELSE LET rid == pending[i].request_id
             key == pending[i].source_key
         IN  IF rid \notin DOMAIN events
             THEN FinalizeLoop(pending, events, i + 1, acc)
             ELSE IF StatusRaises(events[rid])
                  THEN [acc EXCEPT !.raised = TRUE]
             ELSE IF IsOk(events[rid])
                  THEN FinalizeLoop(pending, events, i + 1,
                                    FinalizeOk(acc, rid, key, events[rid]))
                  ELSE FinalizeLoop(pending, events, i + 1,
                                    FinalizeError(acc, rid, key, events[rid]))

\* variant: the finalized entries stay in pending_ingests
CleanupPending_keep(pending, done) == pending

\* variant: every pending entry is dropped, finalized or not
CleanupPending_evict(pending, done) == <<>>

\* "for rid in done_request_ids: pending.pop(rid, None); events.pop(rid, None)"
CleanupPending(pending, done) ==
    SelectSeq(pending, LAMBDA e : e.request_id \notin done)

\* variant: the events of the finalized ids stay in webhook_events
CleanupEvents_keep(events, done) == events

\* variant: every event is dropped, finalized or not
CleanupEvents_purge(events, done) == EmptyMap

CleanupEvents(events, done) == MapRemove(events, done)

\* variant: the finalized ids are never popped from the two maps
FinalizeTx_nocleanup(led) ==
    LET acc == FinalizeLoop(led.pending_ingests, led.webhook_events, 1,
                            [ ops |-> <<>>,
                              processed_keys |-> led.processed_keys,
                              ingest_results |-> led.ingest_results,
                              done |-> {},
                              raised |-> FALSE ])
    IN  [ ops |-> acc.ops,
          raised |-> acc.raised,
          state |->
            [ processed_keys |-> acc.processed_keys,
              ingest_results |-> acc.ingest_results,
              pending_ingests |-> led.pending_ingests,
              webhook_events |-> led.webhook_events ] ]

\* The whole mutator with every object-store call succeeding: the state it leaves
\* in memory, the object-store calls it made, in order, and whether it raised
\* (then the state is not what with_locked_state goes on with: nothing is written).
FinalizeTx(led) ==
    LET acc == FinalizeLoop(led.pending_ingests, led.webhook_events, 1,
                            [ ops |-> <<>>,
                              processed_keys |-> led.processed_keys,
                              ingest_results |-> led.ingest_results,
                              done |-> {},
                              raised |-> FALSE ])
    IN  [ ops |-> acc.ops,
          raised |-> acc.raised,
          state |->
            [ processed_keys |-> acc.processed_keys,
              ingest_results |-> acc.ingest_results,
              pending_ingests |-> CleanupPending(led.pending_ingests, acc.done),
              webhook_events |-> CleanupEvents(led.webhook_events, acc.done) ] ]

\* variant: registering an id drops the event already stored for it
RegisterTx_dropevent(led, rid, key) ==
    [ led EXCEPT
        !.pending_ingests = Append(@, [request_id |-> rid, source_key |-> key]),
        !.webhook_events = MapRemove(@, {rid}) ]

\* register_pending_ingest._tx: state["pending_ingests"][request_id] = entry
\* (a dict keeps the position of a key that is already present)
RegisterTx(led, rid, key) ==
    LET entry == [request_id |-> rid, source_key |-> key]
        p == led.pending_ingests
    IN  [ led EXCEPT !.pending_ingests =
            IF \E i \in DOMAIN p : p[i].request_id = rid
            THEN [i \in DOMAIN p |-> IF p[i].request_id = rid THEN entry ELSE p[i]]
            ELSE Append(p, entry) ]

\* variant: an event already stored for the id is kept
WebhookTx_keepfirst(led, rid, payload) ==
    IF rid \in DOMAIN led.webhook_events
    THEN led
    ELSE [ led EXCEPT !.webhook_events = MapPut(@, rid, payload) ]

\* Handler.do_POST._tx: state["webhook_events"][request_id] = {received_at, **payload}
WebhookTx(led, rid, payload) ==
    [ led EXCEPT !.webhook_events = MapPut(@, rid, payload) ]

\* variant: the processed keys are not dropped from the listing
list_new_csv_objects_all(listing, processed_keys) ==
    SelectSeq(listing, LAMBDA k : EndsWithCsv(k))

\* list_new_csv_objects on the listing sorted by LastModified
list_new_csv_objects(listing, processed_keys) ==
    SelectSeq(listing,
              LAMBDA k : EndsWithCsv(k) /\ k \notin SeqToSet(processed_keys))

(***************************************************************************)
(* State.                                                                  *)
(***************************************************************************)

VARIABLES
    file,        \* processor_state.json: [kind: "absent" | "ok" | "corrupt", data]
    lock,        \* holder of the flock on processor_state.json.lock, or "none"
    incoming,    \* keys under the incoming prefix, oldest LastModified first
    processed,   \* objects under the processed prefix: out key -> source key mapped
    now,         \* the wall clock, in seconds, as send_to_xml_service last read it
    accepted,    \* request ids the XML service has received (it may call back)
    pc,          \* main(): position in the cycle
    tx,          \* main(): position inside with_locked_state
    mem,         \* main(): the dict "state" inside with_locked_state
    loaded,      \* main(): what with_locked_state found in the file when it loaded it
    state,       \* main(): what it reads of the state returned by the admission read
    new_keys,    \* main(): the keys of this cycle still to process, current first
    request_id,  \* main(): the request id of the current key once sent
    net,         \* the object-store and network calls of the latest step of main()
    batch,       \* history: request ids registered by the cycle main() is in
    last_post,   \* the webhook's latest POST: kind of body, id present, answer
    hook,        \* do_POST taken step by step: where the handler is, and its body
    waited,      \* seconds the caller blocked in flock has been blocked
    init_state,  \* webhook_server.py: the dict INIT_STATE as the process has it now
    weather,     \* weather_client.py: WEATHER_ENABLED, _cache, _fail_streak, _cooldown_until
    mapping,     \* write_mapped_csv: weather_cache, weather_calls; history: provider calls
    clock,       \* time.time() as weather_client.py reads it, in seconds
    fx           \* fetch_fx_eur_usd: what its two calls meet, what it returns

vars ==
    << file, lock, incoming, processed, now, accepted, pc, tx, mem, loaded,
       state, new_keys, request_id, net, batch, last_post,
       hook, waited, init_state, weather, mapping, clock, fx >>

\* the webhook handler between its steps, the seconds a caller has waited, and
\* the module-level dict of the webhook process
hookvars == << hook, waited, init_state >>

\* the enrichment client, the mapping pass that uses it, and their clock
wxvars == << weather, mapping, clock >>

\* the state file, the bucket, the XML service and main()
corevars ==
    << file, lock, incoming, processed, now, accepted, pc, tx, mem, loaded,
       state, new_keys, request_id, net, batch, last_post >>

\* "state" before the admission read: nothing read yet
NoState == [processed_keys |-> <<>>, pending_ingests |-> <<>>]

NoRid == [safe |-> <<>>, ts |-> 0 - 1]

AbsentFile == [kind |-> "absent", data |-> INIT_STATE]

\* no POST handled yet
NoPost == [kind |-> "none", has_id |-> FALSE, code |-> "none"]

OkFile(led) == [kind |-> "ok", data |-> led]

\* no POST is being handled
HookIdle == [at |-> "idle", body |-> [kind |-> "none"]]

\* weather_client.py lines 6 and 23-25 when the module is imported
WeatherStart(enabled) ==
    [ enabled |-> enabled,
      cache |-> EmptyMap,
      fail_streak |-> 0,
      cooldown_until |-> 0 ]

\* write_mapped_csv is not running
NoMapping ==
    [ active |-> FALSE,
      weather_cache |-> {},
      weather_calls |-> 0,
      provider |-> EmptyMap,
      last |-> [wkey |-> <<>>, result |-> "none"] ]

NetOp(op, key) == [op |-> op, key |-> key]

\* the state file, the bucket, the XML service, main() and the webhook at start
CoreInit ==
    /\ file = AbsentFile
    /\ lock = "none"
    /\ incoming = <<>>
    /\ processed = EmptyMap
    /\ now = 0
    /\ accepted = {}
    /\ pc = "finalize"
    /\ tx = "idle"
    /\ mem = INIT_STATE
    /\ loaded = AbsentFile
    /\ state = NoState
    /\ new_keys = <<>>
    /\ request_id = NoRid
    /\ net = {}
    /\ batch = {}
    /\ last_post = NoPost
    /\ hook = HookIdle
    /\ waited = 0
    /\ init_state = INIT_STATE

\* fetch_fx_eur_usd is not looked at on its own
NoFx == [rpc |-> "none", rest |-> "none", rate |-> "none", calls |-> <<>>]

Init ==
    /\ CoreInit
    /\ weather = WeatherStart(TRUE)
    /\ mapping = NoMapping
    /\ clock = 0
    /\ fx = NoFx

(***************************************************************************)
(* with_locked_state (state_store.py).                                     *)
(***************************************************************************)

\* variant: the lock is not waited for
LockFree_ignored == TRUE

\* fcntl.flock(lockf, LOCK_EX) returns only when no other process holds the lock
LockFree == lock = "none"

\* json.load of the file, or dict(init_state), then the setdefault lines; for a
\* process whose INIT_STATE is as written in the source (LoadShared: any INIT_STATE)
LoadState(f) == IF f.kind = "ok" THEN f.data ELSE INIT_STATE

\* variant: the bytes are written over the state file itself
FileWhileWriting_inplace(f) == [kind |-> "corrupt", data |-> f.data]

\* _atomic_write_json lines 14-20: the bytes go to a mkstemp file in the same
\* directory; the state file itself is not touched while they are written
FileWhileWriting(f) == f

(***************************************************************************)
(* The environment: the crawler, the clock, the XML service's callbacks.   *)
(***************************************************************************)

\* crawler.py flush_part: s3.put_object of a part under the incoming prefix
Put(k) ==
    /\ k \notin SeqToSet(incoming)
    /\ incoming' = Append(incoming, k)
    /\ UNCHANGED << file, lock, processed, now, accepted, pc, tx, mem, loaded,
                    state, new_keys, request_id, net, batch, last_post, hookvars, wxvars, fx >>

\* The body of a POST to /webhook/xml-status, by what json.loads makes of it:
\* "empty" (no bytes), "invalid" (not JSON), "nonobject" (JSON, but a list, a
\* number, a string, true, false or null), "object". Of an object the fields
\* request_id (NoRid: absent), status ("": absent) and error are kept.
Body(kind, rid, payload) ==
    [kind |-> kind, request_id |-> rid, status |-> payload.status, error |-> payload.error]

ObjectBody(rid, payload) == Body("object", rid, payload)

\* {}: the payload of an empty body and of invalid JSON
EmptyPayload == [status |-> "", error |-> "None"]

\* the placeholder id of line 48: payload.get("request_id") or "unknown"
UnknownRid == [safe |-> <<"unknown">>, ts |-> 0 - 1]

\* lines 41-45: json.loads(raw) if raw else {}, and {} when json.loads raises
ParsedPayload(body) ==
    IF body.kind \in {"empty", "invalid"}
    THEN [request_id |-> NoRid, status |-> "", error |-> "None"]
    ELSE [request_id |-> body.request_id, status |-> body.status, error |-> body.error]

\* Handler.do_POST on the state file f, lines 38-72: the answer and the file it
\* leaves. payload.get of line 48 raises for a payload that is not a dict, and
\* json.load of a corrupt state file raises inside with_locked_state: then no
\* response is sent and nothing is written.
do_POST(f, body) ==
    IF body.kind = "nonobject" \/ f.kind = "corrupt"
    THEN [code |-> "raised", file |-> f]
    ELSE LET payload == ParsedPayload(body)
             rid == IF payload.request_id = NoRid THEN UnknownRid
                    ELSE payload.request_id
         IN  [ code |-> "200",
               file |-> OkFile(WebhookTx(LoadState(f), rid,
                                         [status |-> payload.status,
                                          error |-> payload.error])) ]

\* Handler.do_POST, the whole handler, for one request: it waits for the lock,
\* loads the file, stores the event, replaces the file, unlocks and answers.
PostBody(body) ==
    /\ LockFree
    /\ file' = do_POST(file, body).file
    /\ last_post' = [ kind |-> body.kind,
                      has_id |-> body.kind = "object" /\ body.request_id # NoRid,
                      code |-> do_POST(file, body).code ]
    /\ UNCHANGED << lock, incoming, processed, now, accepted, pc, tx, mem, loaded,
                    state, new_keys, request_id, net, batch, hookvars, wxvars, fx >>

\* the XML service posts {request_id, status, error?} for a request it has
\* received, any number of times
Post(rid, payload) ==
    /\ rid \in accepted
    /\ PostBody(ObjectBody(rid, payload))

(***************************************************************************)
(* main() of processor.py: the transactions of a cycle, step by step.      *)
(***************************************************************************)

\* the locals main() no longer reads once it leaves the position it is in
ProcLocalsAfter(next) ==
    /\ new_keys' = IF next = "sleep" THEN <<>>
                   ELSE IF pc \in {"map", "send", "register"} /\ next = "map"
                        THEN Tail(new_keys)
                        ELSE new_keys
    /\ request_id' = IF next \in {"sleep", "map"} THEN NoRid ELSE request_id
    /\ state' = IF next = "sleep" THEN NoState ELSE state
    /\ batch' = IF next = "sleep" THEN {} ELSE batch

\* variant: a key that fails ends the cycle
NextKey_abandon == "sleep"

\* the for loop of line 544 after the current key: the next key, or line 597
NextKey == IF Len(new_keys) > 1 THEN "map" ELSE "sleep"

\* the mutators of main() that only edit the dict: "lambda s: None" of the
\* admission read and register_pending_ingest._tx
ProcTx(led) ==
    IF pc = "register"
    THEN RegisterTx(led, request_id, Head(new_keys))
    ELSE led

\* with_locked_state lines 43-59 in main(): take the lock, load the file and, for
\* the admission read and the registration, run the mutator on the dict. The
\* finalizer's mutator calls the object store and is the separate step
\* FinalizeApply. A corrupt file makes json.load raise: LOOP ERROR, or FAILED for
\* the key when registering.
TxBegin ==
    /\ pc \in {"finalize", "admit", "register"}
    /\ tx = "idle"
    /\ LockFree
    /\ net' = {}
    /\ IF file.kind = "corrupt"
       THEN LET next == IF pc = "register" THEN NextKey ELSE "sleep"
            IN  /\ pc' = next
                /\ ProcLocalsAfter(next)
                /\ UNCHANGED << lock, tx, mem, loaded >>
       ELSE /\ lock' = "proc"
            /\ loaded' = file
            /\ tx' = IF pc = "finalize" THEN "loaded" ELSE "applied"
            /\ mem' = IF pc = "finalize" THEN LoadState(file)
                      ELSE ProcTx(LoadState(file))
            /\ UNCHANGED << pc, state, new_keys, request_id, batch >>
    /\ UNCHANGED << file, incoming, processed, now, accepted, last_post, hookvars, wxvars, fx >>

\* s3.upload_file / s3.delete_object applied to the bucket, in call order
RECURSIVE ApplyOps(_, _)
ApplyOps(ops, s3) ==
    IF ops = <<>> THEN s3
    ELSE LET o == Head(ops)
         IN  ApplyOps(Tail(ops),
                 IF o.op = "upload"
                 THEN [s3 EXCEPT !.processed = MapPut(@, OutKey(o.key), o.key)]
                 ELSE [s3 EXCEPT !.incoming = SelectSeq(@, LAMBDA k : k # o.key)])

\* variant: the state the mutator was working on is written although it raised
FileAfterRaise_saved(f, m) == OkFile(m)

\* with_locked_state when fn(state) raises at line 59: lines 62-65 are not
\* executed, the state file stays as it is
FileAfterRaise(f, m) == f

\* line 59 for finalize_ready_ingests: fn(state) makes its object-store calls in
\* order; the first one that raises (or the process being killed there, or the
\* mutator raising at line 443) ends the transaction with nothing persisted, the
\* `with` block releasing the lock.
FinalizeApply ==
    /\ pc = "finalize"
    /\ tx = "loaded"
    /\ LET r == FinalizeTx(mem)
       IN  \E n \in 0..Len(r.ops) :
             LET did == SubSeq(r.ops, 1, n)
                 s3  == ApplyOps(did, [incoming |-> incoming, processed |-> processed])
             IN  /\ incoming' = s3.incoming
                 /\ processed' = s3.processed
                 /\ net' = SeqToSet(did)
                 /\ IF n = Len(r.ops) /\ ~r.raised
                    THEN /\ mem' = r.state
                         /\ tx' = "applied"
                         /\ UNCHANGED << file, lock, pc, loaded >>
                    ELSE /\ mem' = INIT_STATE
                         /\ tx' = "idle"
                         /\ loaded' = AbsentFile
                         /\ lock' = "none"
                         /\ file' = FileAfterRaise(file, r.state)
                         /\ \E how \in {"raise", "kill"} :
                              pc' = IF how = "raise" THEN "sleep" ELSE "finalize"
    /\ UNCHANGED << now, accepted, state, new_keys, request_id, batch, last_post, hookvars, wxvars, fx >>

\* _atomic_write_json lines 14-20 for the transaction in progress
TxWriteTmp ==
    /\ tx = "applied"
    /\ tx' = "tmp"
    /\ file' = FileWhileWriting(file)
    /\ net' = {}
    /\ UNCHANGED << lock, incoming, processed, now, accepted, pc, mem, loaded,
                    state, new_keys, request_id, batch, last_post, hookvars, wxvars, fx >>

\* variant: new work is taken whatever is pending
AdmissionBlocked_never(st) == FALSE

\* main() line 526: "if state.get('pending_ingests')"
AdmissionBlocked(st) == st.pending_ingests # <<>>

\* where main() goes when with_locked_state returns
AfterTx ==
    CASE pc = "finalize" -> "admit"
      [] pc = "admit" -> IF AdmissionBlocked(mem) THEN "sleep" ELSE "fx"
      [] OTHER -> NextKey

\* _atomic_write_json line 23 and with_locked_state lines 65-67:
\* os.replace(tmp_path, path), unlock, return the state to the caller
TxCommit ==
    /\ tx = "tmp"
    /\ file' = OkFile(mem)
    /\ tx' = "idle"
    /\ lock' = IF lock = "proc" THEN "none" ELSE lock
    /\ pc' = AfterTx
    /\ mem' = INIT_STATE
    /\ loaded' = AbsentFile
    /\ net' = {}
    /\ CASE pc = "admit" ->
               /\ state' = IF AfterTx = "sleep" THEN NoState
                            ELSE [ processed_keys |-> mem.processed_keys,
                                   pending_ingests |-> mem.pending_ingests ]
               /\ UNCHANGED << new_keys, request_id, batch >>
         [] pc = "register" ->
               /\ new_keys' = IF AfterTx = "sleep" THEN <<>> ELSE Tail(new_keys)
               /\ request_id' = NoRid
               /\ state' = IF AfterTx = "sleep" THEN NoState ELSE state
               /\ batch' = IF AfterTx = "sleep" THEN {} ELSE batch \cup {request_id}
         [] OTHER -> ProcLocalsAfter(AfterTx)
    /\ UNCHANGED << incoming, processed, now, accepted, last_post, hookvars, wxvars, fx >>

\* The processor is killed and started again: the kernel drops its flock, its
\* memory is gone, main() starts with the finalizer.
Crash ==
    /\ pc # "finalize" \/ tx # "idle"
    /\ pc' = "finalize"
    /\ tx' = "idle"
    /\ mem' = INIT_STATE
    /\ loaded' = AbsentFile
    /\ lock' = IF lock = "proc" THEN "none" ELSE lock
    /\ net' = {}
    /\ state' = NoState
    /\ new_keys' = <<>>
    /\ request_id' = NoRid
    /\ batch' = {}
    /\ UNCHANGED << file, incoming, processed, now, accepted, last_post, hookvars, wxvars, fx >>

(***************************************************************************)
(* main(): the steps of a cycle outside the transactions.                  *)
(***************************************************************************)

\* Two rates, as the sources give them, told apart by their digits.
Rates == {"1.05", "1.10"}

\* How client.default.get_eur_usd_rate() ends: with a value _to_float reads as a
\* number, with a value float() cannot read, or with an exception (no
\* connection, a fault).
RpcOutcomes ==
    { [kind |-> "value", value |-> r] : r \in Rates }
        \cup { [kind |-> "unreadable", value |-> "none"],
               [kind |-> "raises", value |-> "none"] }

\* What a response has under "rates" or under "conversion_rates": no such key, a
\* mapping without "USD", a "USD" that float() cannot read (null, a list), or a
\* rate.
RestFields == {"absent", "nousd", "unreadable"} \cup Rates

\* How requests.get(FX_URL), raise_for_status and r.json() end: with an
\* exception (timeout, error status, no JSON), or with a JSON object.
RestOutcomes ==
    { [kind |-> "raises", rates |-> "absent", conversion_rates |-> "absent"] }
        \cup { [kind |-> "json", rates |-> x, conversion_rates |-> y] :
                 x \in RestFields, y \in RestFields }

\* lines 180-181: the rate of the XML-RPC call, or "raises"
RpcRate(rpc) == IF rpc.kind = "value" THEN rpc.value ELSE "raises"

\* float(data[path]["USD"])
FloatOf(v) == IF v \in Rates THEN v ELSE "raises"

\* variant: only the key path "rates" is known
RestRate_ratesonly(rest) ==
    IF rest.kind = "raises" THEN "raises"
    ELSE IF rest.rates \notin {"absent", "nousd"} THEN FloatOf(rest.rates)
    ELSE "raises"

\* lines 189-204: the rate of the REST call, or "raises" (an exception of
\* requests, of float(), or the RuntimeError of line 204)
RestRate(rest) ==
    IF rest.kind = "raises" THEN "raises"
    ELSE IF rest.rates \notin {"absent", "nousd"} THEN FloatOf(rest.rates)
    ELSE IF rest.conversion_rates \notin {"absent", "nousd"}
         THEN FloatOf(rest.conversion_rates)
    ELSE "raises"

\* the calls fetch_fx_eur_usd makes, in order
FxCallsMade(rpc, rest) ==
    IF RpcRate(rpc) # "raises" THEN <<"fx_rpc">> ELSE <<"fx_rpc", "fx_rest">>

\* the calls fetch_fx_eur_usd makes, each with whether it gave a rate
FxCalls(rpc, rest) ==
    { NetOp(op, IF (IF op = "fx_rpc" THEN RpcRate(rpc) ELSE RestRate(rest)) # "raises"
                THEN <<"rate">> ELSE <<"failed">>) :
        op \in SeqToSet(FxCallsMade(rpc, rest)) }

\* variant: a rate is made up when neither source gives one
fetch_fx_eur_usd_default(rpc, rest) == "1.05"

\* fetch_fx_eur_usd: XML-RPC first; on any exception the REST fallback, which
\* raises (requests exception, or RuntimeError of line 204) if it gives no rate
fetch_fx_eur_usd(rpc, rest) ==
    IF RpcRate(rpc) # "raises" THEN RpcRate(rpc) ELSE RestRate(rest)

\* line 535: fetch_fx_eur_usd(); if it raises, the cycle ends in "LOOP ERROR" and
\* the sleep of line 597
FetchFx ==
    /\ pc = "fx"
    /\ \E rpc \in RpcOutcomes, rest \in RestOutcomes :
         LET next == IF fetch_fx_eur_usd(rpc, rest) # "raises" THEN "list" ELSE "sleep"
         IN  /\ net' = FxCalls(rpc, rest)
             /\ pc' = next
             /\ ProcLocalsAfter(next)
    /\ UNCHANGED << file, lock, incoming, processed, now, accepted, tx, mem, loaded, last_post, hookvars, wxvars, fx >>

HasPrefix(key, prefix) ==
    Len(key) >= Len(prefix) /\ SubSeq(key, 1, Len(prefix)) = prefix

\* The keys the model knows, in the UTF-8 binary order of their names, which is
\* the order of "Contents" in a list_objects_v2 response: "incoming/a/b.csv",
\* "incoming/a:b.csv", "incoming/b.csv", "incoming/incidents_..._part0001.csv",
\* "incoming/incidents_..._part0002.csv".
KeyOrder ==
    << <<"incoming", "/", "a", "/", "b", ".csv">>,
       <<"incoming", "/", "a", ":", "b", ".csv">>,
       <<"incoming", "/", "b", ".csv">>,
       KeyA,
       KeyB >>

\* s3.list_objects_v2(Bucket, Prefix=IN_PREFIX).get("Contents", []) for the bucket
\* whose incoming objects are inc
ListObjects(inc) ==
    SelectSeq(KeyOrder, LAMBDA k : k \in SeqToSet(inc) /\ HasPrefix(k, IN_PREFIX))

\* it["LastModified"]: the place of the object among the puts
LastModified(inc, k) == CHOOSE i \in DOMAIN inc : inc[i] = k

RECURSIVE InsertByLastModified(_, _, _)
InsertByLastModified(sorted, k, inc) ==
    IF sorted = <<>> THEN <<k>>
    ELSE IF LastModified(inc, k) < LastModified(inc, Head(sorted))
         THEN <<k>> \o sorted
         ELSE <<Head(sorted)>> \o InsertByLastModified(Tail(sorted), k, inc)

\* variant: the items stay in the order of the response
SortByLastModified_asreturned(items, inc) == items

\* items.sort(key=lambda x: x["LastModified"]) of line 215
RECURSIVE SortByLastModified(_, _)
SortByLastModified(items, inc) ==
    IF items = <<>> THEN <<>>
    ELSE InsertByLastModified(
             SortByLastModified(SubSeq(items, 1, Len(items) - 1), inc),
             items[Len(items)], inc)

\* lines 536-542: list the incoming prefix, drop the processed keys
ListNew ==
    /\ pc = "list"
    /\ net' = {NetOp("list", NoKey)}
    /\ \E ok \in BOOLEAN :
         LET listing == SortByLastModified(ListObjects(incoming), incoming)
             found == IF ok THEN list_new_csv_objects(listing, state.processed_keys) ELSE <<>>
             next == IF found = <<>> THEN "sleep" ELSE "map"
         IN  /\ pc' = next
             /\ new_keys' = found
             /\ state' = IF next = "sleep" THEN NoState ELSE state
             /\ UNCHANGED << request_id, batch >>
    /\ UNCHANGED << file, lock, incoming, processed, now, accepted, tx, mem, loaded, last_post, hookvars, wxvars, fx >>

\* lines 548-560: head_object, get_object and write_mapped_csv for the current key;
\* any exception is caught at line 590 and the loop continues with the next key
MapKey ==
    /\ pc = "map"
    /\ net' = {NetOp("get", Head(new_keys))}
    /\ \E ok \in BOOLEAN :
         LET next == IF ok /\ Head(new_keys) \in SeqToSet(incoming) THEN "send"
                     ELSE NextKey
         IN  /\ pc' = next
             /\ ProcLocalsAfter(next)
    /\ UNCHANGED << file, lock, incoming, processed, now, accepted, tx, mem, loaded, last_post, hookvars, wxvars, fx >>

\* lines 562-570: send_to_xml_service reads the clock (it has not gone back since
\* the last reading), builds the request id from the key and the second read, and
\* posts the mapped CSV. "ok": acknowledged; "lost": the request never
\* arrived; "late": the service took the request but the answer did not come back
\* (timeout, error status), so requests.post raises after the service has it.
Send ==
    /\ pc = "send"
    /\ \E ts \in now..MaxClock, how \in {"ok", "lost", "late"} :
         LET key == Head(new_keys)
             rid == RequestId(key, ts)
         IN     /\ now' = ts
                /\ net' = {NetOp("submit", key)}
                /\ how # "lost" => Cardinality(accepted \cup {rid}) <= MaxRequests
                /\ accepted' = IF how = "lost" THEN accepted ELSE accepted \cup {rid}
                /\ IF how = "ok"
                   THEN /\ pc' = "register"
                        /\ request_id' = rid
                        /\ UNCHANGED << new_keys, state, batch >>
                   ELSE /\ pc' = NextKey
                        /\ ProcLocalsAfter(NextKey)
    /\ UNCHANGED << file, lock, incoming, processed, tx, mem, loaded, last_post, hookvars, wxvars, fx >>

\* variant: main() returns after the sleep instead of iterating
Sleep_halt ==
    /\ pc = "sleep"
    /\ pc' = "halted"
    /\ net' = {}
    /\ UNCHANGED << file, lock, incoming, processed, now, accepted, tx, mem, loaded,
                    state, new_keys, request_id, batch, last_post, hookvars, wxvars, fx >>

\* time.sleep(POLL_SECONDS) at lines 531, 541 and 597, then the next iteration
Sleep ==
    /\ pc = "sleep"
    /\ pc' = "finalize"
    /\ net' = {}
    /\ UNCHANGED << file, lock, incoming, processed, now, accepted, tx, mem, loaded,
                    state, new_keys, request_id, batch, last_post, hookvars, wxvars, fx >>

Next ==
    \/ \E k \in Keys : Put(k)
    \/ \E rid \in Rids, payload \in Payloads : Post(rid, payload)
    \/ TxBegin
    \/ FinalizeApply
    \/ TxWriteTmp
    \/ TxCommit
    \/ Crash
    \/ FetchFx
    \/ ListNew
    \/ MapKey
    \/ Send
    \/ Sleep

Spec == Init /\ [][Next]_vars

(***************************************************************************)
(* Properties.                                                             *)
(***************************************************************************)

Ledger == file.data

ProcessedKeys == SeqToSet(Ledger.processed_keys)

WorkPcs == {"fx", "list", "map", "send", "register"}

\* the ledger holds a pending entry for k and an event of the same id with status OK
MatchedOk(led, k) ==
    \E i \in DOMAIN led.pending_ingests :
        /\ led.pending_ingests[i].source_key = k
        /\ led.pending_ingests[i].request_id \in DOMAIN led.webhook_events
        /\ led.webhook_events[led.pending_ingests[i].request_id].status = "OK"

\* this step uploads the mapped CSV of k or deletes k
StoreCall(k) == net' # net /\ (UploadOp(k) \in net' \/ DeleteOp(k) \in net')

\* C1: a source object is deleted, or the processed area written, only by the
\* finalizer's mutator, and only for a key that at that moment has a pending entry
\* and an event of the same request id with status OK in the ledger.
C1_CommitOnlyOnOkEvent ==
    [][ /\ \A k \in Keys :
            (StoreCall(k) \/ (k \in SeqToSet(incoming) /\ k \notin SeqToSet(incoming')))
                => /\ pc = "finalize" /\ tx = "loaded" /\ lock = "proc"
                   /\ file.kind = "ok"
                   /\ MatchedOk(Ledger, k)
        /\ processed' # processed => \E k \in Keys : StoreCall(k) /\ MatchedOk(Ledger, k)
      ]_vars

C1_Witness ==
    /\ UploadOp(KeyA) \in net /\ DeleteOp(KeyA) \in net
    /\ KeyA \notin SeqToSet(incoming)
    /\ OutKey(KeyA) \in DOMAIN processed
    /\ KeyB \in SeqToSet(incoming) /\ KeyB \in PendingKeys(Ledger)

\* C2: when the admission read returns a state with a pending entry, main() goes
\* to sleep with no rate, listing, download or submission call and no change of
\* pending_ingests, and from the sleep only to the finalizer; main() is in the
\* working part of a cycle only with a state whose pending_ingests was empty.
C2_AdmissionBlocksCycle ==
    [][ /\ (pc = "admit" /\ tx = "tmp" /\ mem.pending_ingests # <<>>
                /\ <<pc, tx>>' # <<pc, tx>>)
            => /\ pc' \in {"sleep", "finalize"}
               /\ net' = {}
               /\ accepted' = accepted
               /\ file'.data.pending_ingests = mem.pending_ingests
        /\ (pc = "sleep" /\ pc' # pc) => (pc' = "finalize" /\ net' = {})
        /\ pc' \in WorkPcs => state'.pending_ingests = <<>>
      ]_vars

C2_Witness ==
    /\ pc = "admit" /\ tx = "tmp"
    /\ mem.pending_ingests # <<>>
    /\ \E k \in SeqToSet(incoming) : k \notin PendingKeys(mem) \cup SeqToSet(mem.processed_keys)

\* C3: all pending entries of the ledger were registered in one and the same
\* cycle: entries are registered only in the working part of a cycle, and while
\* main() is there every pending entry of the ledger was registered by that cycle.
C3_OneBatch == pc \in WorkPcs => PendingRids(Ledger) \subseteq batch

\* the second registration of a cycle is about to be installed
C3_Witness ==
    /\ pc = "register" /\ tx = "tmp"
    /\ Len(Ledger.pending_ingests) = 1
    /\ Len(mem.pending_ingests) = 2
    /\ PendingRids(Ledger) = batch

\* how often k occurs in the list processed_keys of a state
Occurrences(led, k) ==
    Cardinality({ i \in DOMAIN led.processed_keys : led.processed_keys[i] = k })

\* C4: once a source key is in processed_keys it stays there exactly once, its
\* mapped CSV stays in the processed area, and no step uploads or deletes for it
\* or changes its outcome again, whatever callbacks arrive afterwards.
C4_NoDoubleCommit ==
    [][ \A k \in Keys :
            k \in ProcessedKeys
                => /\ ~StoreCall(k)
                   /\ Occurrences(Ledger, k) = 1
                   /\ Occurrences(Ledger', k) = 1
                   /\ Ledger'.ingest_results[k] = Ledger.ingest_results[k]
                   /\ OutKey(k) \in DOMAIN processed /\ processed[OutKey(k)] = k
                   /\ OutKey(k) \in DOMAIN processed' /\ processed'[OutKey(k)] = k
      ]_vars

\* the finalizer has just run on a state that holds a further callback for a
\* request of KeyA, committed by an earlier transaction
C4_Witness ==
    /\ pc = "finalize" /\ tx = "applied"
    /\ KeyA \in SeqToSet(mem.processed_keys)
    /\ KeyA \in ProcessedKeys
    /\ \E r \in DOMAIN mem.webhook_events : r.safe = SafeKey(KeyA)

\* C5 (as claimed): a source key whose recorded outcome is a failure is never
\* submitted to the XML service again.
C5_FailedNeverResubmitted ==
    \A k \in DOMAIN Ledger.ingest_results :
        Ledger.ingest_results[k].status # "OK" => NetOp("submit", k) \notin net

\* C6: the state file is never partial; it changes only by one replace that
\* installs the complete state of a transaction; killing the processor inside a
\* transaction leaves the file as it was loaded or as the transaction leaves it.
C6_CrashSafe ==
    [][ /\ file'.kind # "corrupt"
        /\ file' # file
            => \/ tx = "tmp" /\ file' = OkFile(mem)
               \/ tx = "idle" /\ \E rid \in accepted, payload \in Payloads :
                                    file' = OkFile(WebhookTx(LoadState(file), rid, payload))
        /\ (tx # "idle" /\ tx' = "idle")
            => file' \in {loaded, OkFile(mem)}
      ]_vars

\* the temporary file of a registration is written and the processor can be killed
C6_Witness ==
    /\ pc = "register" /\ tx = "tmp"
    /\ file.kind = "ok"
    /\ mem # Ledger

\* the mutator of the transaction main() is in
TxFn(led) ==
    CASE pc = "finalize" -> FinalizeTx(led).state
      [] pc = "register" -> RegisterTx(led, request_id, Head(new_keys))
      [] OTHER -> led

\* C7: while main() is between load and replace it holds the lock and the file is
\* what it loaded; every change of the file is one whole transaction applied to
\* the file as it is at that moment; no pending entry and no event disappears
\* except by the finalizer's own transaction.
C7_Serializable ==
    [][ /\ tx' # "idle" => (lock' = "proc" /\ file' = loaded')
        /\ file' # file
            => \/ tx = "tmp" /\ file' = OkFile(TxFn(LoadState(file)))
               \/ /\ tx = "idle" /\ lock = "none"
                  /\ \E rid \in accepted, payload \in Payloads :
                        file' = OkFile(WebhookTx(LoadState(file), rid, payload))
        /\ ~(pc = "finalize" /\ tx = "tmp")
            => /\ PendingRids(Ledger) \subseteq PendingRids(Ledger')
               /\ DOMAIN Ledger.webhook_events \subseteq DOMAIN Ledger'.webhook_events
      ]_vars

\* a registration holds the lock while the callback for its request can arrive
C7_Witness ==
    /\ pc = "register" /\ tx = "tmp" /\ lock = "proc"
    /\ request_id \in accepted
    /\ DOMAIN Ledger.webhook_events # {}

\* C8: from any ledger and bucket, a second run of the finalizer right after a
\* first one makes no object-store call and leaves the state as the first left it.
C8_FinalizeIdempotent ==
    LET first  == FinalizeTx(Ledger)
        bucket == ApplyOps(first.ops, [incoming |-> incoming, processed |-> processed])
        second == FinalizeTx(first.state)
    IN  /\ second.ops = <<>>
        /\ second.state = first.state
        /\ ApplyOps(second.ops, bucket) = bucket

C8_Witness ==
    /\ FinalizeTx(Ledger).ops # <<>>
    /\ \E i \in DOMAIN Ledger.pending_ingests :
          /\ Ledger.pending_ingests[i].request_id \in DOMAIN Ledger.webhook_events
          /\ Ledger.webhook_events[Ledger.pending_ingests[i].request_id].status = "ERROR"
    /\ FinalizeTx(Ledger).state.pending_ingests = <<>>

\* C9: a source key is in processed_keys exactly when its recorded outcome is OK.
C9_ProcessedIffOk ==
    \A k \in Keys :
        k \in ProcessedKeys
            <=> (k \in DOMAIN Ledger.ingest_results
                    /\ Ledger.ingest_results[k].status = "OK")

\* KeyA, submitted under two request ids, is committed and the ledger holds a
\* later non-OK callback for one of them
C9_Witness ==
    /\ KeyA \in ProcessedKeys
    /\ {RequestId(KeyA, 0), RequestId(KeyA, 1)} \subseteq accepted
    /\ \E r \in DOMAIN Ledger.webhook_events :
          r.safe = SafeKey(KeyA) /\ Ledger.webhook_events[r].status = "ERROR"

\* C10: no key of processed_keys is the source key of a pending entry.
C10_ProcessedNotPending == ProcessedKeys \cap PendingKeys(Ledger) = {}

\* KeyA is committed and has been put again by the crawler while KeyB is pending
C10_Witness ==
    /\ KeyA \in ProcessedKeys
    /\ KeyA \in SeqToSet(incoming)
    /\ KeyB \in PendingKeys(Ledger)

(***************************************************************************)
(* The effects of one finalizer transaction.                               *)
(***************************************************************************)

\* this step is the finalizer's mutator running to its end
FinalizeRuns == pc = "finalize" /\ tx = "loaded" /\ tx' = "applied"

\* this step is the replace that installs the finalizer's transaction
FinalizeInstalls == pc = "finalize" /\ tx = "tmp" /\ tx' = "idle" /\ pc' = "admit"

\* the pending entry e of state led has an event, and its status is s
EventStatus(led, e, s) ==
    /\ e.request_id \in DOMAIN led.webhook_events
    /\ led.webhook_events[e.request_id].status = s

\* C11: when the finalizer's mutator finds a pending entry whose event has status
\* OK, then its run puts the mapped CSV in the processed area, deletes the source
\* object, has the key in processed_keys, records an OK outcome and drops the
\* entry and the event; the replace of that same transaction installs exactly
\* that state.
C11_FinalizeOkEffects ==
    [][ /\ FinalizeRuns
            => \A i \in DOMAIN mem.pending_ingests :
                 LET e == mem.pending_ingests[i]
                     k == e.source_key
                 IN  EventStatus(mem, e, "OK")
                        => /\ UploadOp(k) \in net' /\ DeleteOp(k) \in net'
                           /\ OutKey(k) \in DOMAIN processed' /\ processed'[OutKey(k)] = k
                           /\ k \notin SeqToSet(incoming')
                           /\ Occurrences(mem', k) = 1
                           /\ mem'.ingest_results[k] = [status |-> "OK", error |-> "None"]
                           /\ e.request_id \notin PendingRids(mem')
                           /\ e.request_id \notin DOMAIN mem'.webhook_events
        /\ FinalizeInstalls => file' = OkFile(mem)
      ]_vars

\* the mutator has just committed KeyA in memory; the file does not have it yet
C11_Witness ==
    /\ pc = "finalize" /\ tx = "applied"
    /\ UploadOp(KeyA) \in net
    /\ KeyA \in SeqToSet(mem.processed_keys)
    /\ KeyA \notin ProcessedKeys
    /\ KeyA \in PendingKeys(Ledger)
    /\ PendingRids(mem) \cap PendingRids(Ledger) = {}

\* C12: when the finalizer's mutator finds a pending entry whose event has a
\* status other than OK, its run records for the key a failure outcome with the
\* event's status and error and drops the entry and the event; it makes no
\* object-store call for the key and leaves the key's source object, its place
\* in the processed area and processed_keys as they were.
C12_FinalizeErrorEffects ==
    [][ FinalizeRuns
            => /\ \A i \in DOMAIN mem.pending_ingests :
                    LET e == mem.pending_ingests[i]
                        k == e.source_key
                    IN  (e.request_id \in DOMAIN mem.webhook_events
                            /\ ~EventStatus(mem, e, "OK"))
                           => /\ mem'.ingest_results[k] =
                                     [ status |-> mem.webhook_events[e.request_id].status,
                                       error |-> mem.webhook_events[e.request_id].error ]
                              /\ e.request_id \notin PendingRids(mem')
                              /\ e.request_id \notin DOMAIN mem'.webhook_events
                              /\ UploadOp(k) \notin net' /\ DeleteOp(k) \notin net'
                              /\ (k \in SeqToSet(incoming)) = (k \in SeqToSet(incoming'))
                              /\ (OutKey(k) \in DOMAIN processed) = (OutKey(k) \in DOMAIN processed')
                              /\ Occurrences(mem', k) = Occurrences(mem, k)
               /\ (\A i \in DOMAIN mem.pending_ingests :
                        ~EventStatus(mem, mem.pending_ingests[i], "OK"))
                    => /\ incoming' = incoming
                       /\ processed' = processed
                       /\ mem'.processed_keys = mem.processed_keys
      ]_vars

\* the mutator has just recorded the rejection of KeyA, which is still in incoming
C12_Witness ==
    /\ pc = "finalize" /\ tx = "applied"
    /\ KeyA \in PendingKeys(Ledger)
    /\ KeyA \in DOMAIN mem.ingest_results
    /\ mem.ingest_results[KeyA] = [status |-> "ERROR", error |-> "schema mismatch"]
    /\ KeyA \notin DOMAIN Ledger.ingest_results
    /\ KeyA \in SeqToSet(incoming)
    /\ KeyA \notin SeqToSet(mem.processed_keys)
    /\ mem.pending_ingests = <<>>

(***************************************************************************)
(* A pending entry that gets no callback.                                  *)
(***************************************************************************)

\* this step is send_to_xml_service called for the current key
Submits == pc = "send" /\ pc' # "send" /\ NetOp("submit", Head(new_keys)) \in net'

ReceivedFor(k) == { r \in accepted : r.safe = SafeKey(k) }

\* C14 (as claimed): the XML service receives at most one submission of each
\* source object, whatever fails between the call and the registration.
C14_AtMostOnceSubmission ==
    \A k \in Keys : Cardinality(ReceivedFor(k)) <= 1

\* Two keys another uploader can put under the incoming prefix, "incoming/a/b.csv"
\* and "incoming/a:b.csv": replace("/", "_").replace(":", "_") maps them to one
\* safe_key.
KeyC == <<"incoming", "/", "a", "/", "b", ".csv">>

KeyD == <<"incoming", "/", "a", ":", "b", ".csv">>

OtherKeys == {KeyC, KeyD}

OtherRids == { RequestId(k, t) : k \in OtherKeys, t \in 0..MaxClock }

\* the system with these two objects in the bucket instead of the crawler's
KeyNext ==
    \/ \E k \in OtherKeys : Put(k)
    \/ \E rid \in OtherRids, payload \in Payloads : Post(rid, payload)
    \/ TxBegin
    \/ FinalizeApply
    \/ TxWriteTmp
    \/ TxCommit
    \/ Crash
    \/ FetchFx
    \/ ListNew
    \/ MapKey
    \/ Send
    \/ Sleep

KeySpec == Init /\ [][KeyNext]_vars

\* this step is the replace that installs a registration
RegisterInstalls == pc = "register" /\ tx = "tmp" /\ tx' = "idle" /\ pc' # "finalize"

\* C15 (as claimed): the request id of an acknowledged submission is one the XML
\* service has not received before, and installing a registration adds a pending
\* entry without replacing one that is there.
C15_UniqueRequestIds ==
    [][ /\ (pc = "send" /\ pc' = "register") => request_id' \notin accepted
        /\ RegisterInstalls
            => /\ request_id \notin PendingRids(Ledger)
               /\ Len(Ledger'.pending_ingests) = Len(Ledger.pending_ingests) + 1
      ]_vars

(***************************************************************************)
(* Restart of the processor.                                               *)
(***************************************************************************)

\* main() is at the top of its loop with no transaction open: the process has
\* been started (again), or an iteration has ended
AtLoopTop == pc = "finalize" /\ tx = "idle"

\* what the finalizer of the normal loop does with the file and the bucket as
\* they are: every pending entry whose event is OK ends committed
Recoverable ==
    LET r == FinalizeTx(LoadState(file))
        b == ApplyOps(r.ops, [incoming |-> incoming, processed |-> processed])
    IN  \A i \in DOMAIN Ledger.pending_ingests :
           LET e == Ledger.pending_ingests[i]
               k == e.source_key
           IN  EventStatus(Ledger, e, "OK")
                  => /\ Occurrences(r.state, k) = 1
                     /\ r.state.ingest_results[k].status = "OK"
                     /\ e.request_id \notin PendingRids(r.state)
                     /\ e.request_id \notin DOMAIN r.state.webhook_events
                     /\ OutKey(k) \in DOMAIN b.processed /\ b.processed[OutKey(k)] = k
                     /\ k \notin SeqToSet(b.incoming)

\* C16: wherever the processor is killed (after the upload, after the delete,
\* before or during the write of the ledger, between two steps of a cycle) it
\* is, once started again, at the finalizer with the lock free and the ledger
\* file whole, and from there the finalizer of the normal loop, run to its end,
\* commits every OK-confirmed pending entry: key in processed_keys, OK outcome,
\* entry and event removed, mapped CSV in the processed area, source object
\* absent.
C16_RestartRecovers ==
    AtLoopTop
        => /\ lock = "none"
           /\ file.kind # "corrupt"
           /\ Recoverable

\* the processor was killed after the upload and the delete for KeyA and before
\* the ledger was written: it is back at the finalizer
C16_Witness ==
    /\ pc = "finalize" /\ tx = "idle" /\ lock = "none"
    /\ \E i \in DOMAIN Ledger.pending_ingests :
          /\ Ledger.pending_ingests[i].source_key = KeyA
          /\ EventStatus(Ledger, Ledger.pending_ingests[i], "OK")
    /\ KeyA \notin SeqToSet(incoming)
    /\ OutKey(KeyA) \in DOMAIN processed
    /\ KeyA \notin ProcessedKeys

(***************************************************************************)
(* A key that fails before its registration.                               *)
(***************************************************************************)

\* this step is the except branch of line 590 taken for the current key: its
\* download or mapping, or send_to_xml_service, raised
KeyFails ==
    /\ pc \in {"map", "send"}
    /\ pc' \in {"map", "sleep"}
    /\ new_keys' # new_keys

\* C17: when downloading, mapping or submitting the current key fails, the ledger
\* file is unchanged (no pending entry for the key, processed_keys and
\* ingest_results as they were), main() goes on with the remaining keys of the
\* cycle, or sleeps if there is none, and the key, while it is in incoming, is
\* among the keys a listing returns.
C17_FailedKeySkipped ==
    [][ KeyFails
            => LET k == Head(new_keys)
               IN  /\ file' = file
                   /\ k \notin PendingKeys(Ledger')
                   /\ k \notin ProcessedKeys
                   /\ IF Len(new_keys) > 1
                      THEN pc' = "map" /\ new_keys' = Tail(new_keys)
                      ELSE pc' = "sleep" /\ new_keys' = <<>>
                   /\ k \in SeqToSet(incoming')
                        => k \in SeqToSet(list_new_csv_objects(incoming',
                                                              Ledger'.processed_keys))
      ]_vars

\* the submission of KeyA failed after the service had taken it; main() is at
\* the next key of the same cycle
C17_Witness ==
    /\ pc = "map"
    /\ new_keys = <<KeyB>>
    /\ incoming = <<KeyA, KeyB>>
    /\ RequestId(KeyA, 0) \in accepted
    /\ Ledger.pending_ingests = <<>>
    /\ net = {NetOp("submit", KeyA)}

(***************************************************************************)
(* The webhook handler and the bodies it is sent.                          *)
(***************************************************************************)

\* the request ids of KeyA
HookRids == { RequestId(KeyA, t) : t \in 0..MaxClock }

\* {"status": 500}: a status that is not a string
NumberPayload == [status |-> JsonNumber, error |-> "None"]

HookPayloads == Payloads \cup {EmptyPayload, NumberPayload}

\* the bodies posted: none, not JSON, JSON that is no object, and objects with
\* or without request_id and status
HookBodies ==
    { Body(k, NoRid, EmptyPayload) : k \in {"empty", "invalid", "nonobject"} }
        \cup { ObjectBody(r, p) : r \in HookRids \cup {NoRid}, p \in HookPayloads }

\* the system with one source object and a sender that posts any of these bodies
HookNext ==
    \/ Put(KeyA)
    \/ \E body \in HookBodies :
          /\ body.request_id \in accepted \cup {NoRid}
          /\ PostBody(body)
    \/ TxBegin
    \/ FinalizeApply
    \/ TxWriteTmp
    \/ TxCommit
    \/ Crash
    \/ FetchFx
    \/ ListNew
    \/ MapKey
    \/ Send
    \/ Sleep

HookSpec == Init /\ [][HookNext]_vars

\* C18 (as claimed): whatever the body of a POST, the handler completes its
\* transaction and answers 200.
C18_AlwaysAnswers200 == last_post # NoPost => last_post.code = "200"

\* C19: a callback for a request id replaces whatever event the ledger holds for
\* that id by the payload just received, whole, and touches no other event: the
\* ledger holds one event per id, the latest; and the finalizer commits the
\* pending entry of that id exactly when that latest payload has status OK, and
\* records the status of that payload.
C19_LastWriteWins ==
    \A rid \in accepted, p \in Payloads :
        LET after == do_POST(file, ObjectBody(rid, p)).file.data
            r == FinalizeTx(after)
        IN  /\ rid \in DOMAIN after.webhook_events
            /\ after.webhook_events[rid] = p
            /\ MapRemove(after.webhook_events, {rid}) = MapRemove(Ledger.webhook_events, {rid})
            /\ \A i \in DOMAIN after.pending_ingests :
                  LET e == after.pending_ingests[i]
                  IN  e.request_id = rid
                         => /\ (UploadOp(e.source_key) \in SeqToSet(r.ops)) = (p.status = "OK")
                            /\ r.state.ingest_results[e.source_key].status = p.status

\* the ledger holds a non-OK event for the pending request of KeyA, no
\* transaction is open, and the XML service can post for that request again
C19_Witness ==
    /\ lock = "none" /\ tx = "idle"
    /\ last_post.code = "200"
    /\ \E i \in DOMAIN Ledger.pending_ingests :
          /\ Ledger.pending_ingests[i].source_key = KeyA
          /\ EventStatus(Ledger, Ledger.pending_ingests[i], "ERROR")
          /\ Ledger.pending_ingests[i].request_id \in accepted

\* this step is the webhook handling a POST whose body is not an object with a
\* request_id
PostsWithoutId ==
    /\ tx = "idle" /\ tx' = "idle"
    /\ file' # file \/ last_post' # last_post
    /\ last_post'.kind # "object" \/ ~last_post'.has_id

\* C20 (as claimed): a POST with a malformed body or without request_id stores an
\* event under the placeholder id and changes nothing else: the other events,
\* pending_ingests, processed_keys and ingest_results are as before, no pending
\* entry has the placeholder id, and the finalizer does for the new state what
\* it would have done for the old one.
C20_PlaceholderOnly ==
    [][ PostsWithoutId
            => /\ UnknownRid \in DOMAIN Ledger'.webhook_events
               /\ MapRemove(Ledger'.webhook_events, {UnknownRid})
                    = MapRemove(Ledger.webhook_events, {UnknownRid})
               /\ Ledger'.pending_ingests = Ledger.pending_ingests
               /\ Ledger'.processed_keys = Ledger.processed_keys
               /\ Ledger'.ingest_results = Ledger.ingest_results
               /\ UnknownRid \notin PendingRids(Ledger')
               /\ FinalizeTx(Ledger').ops = FinalizeTx(Ledger).ops
      ]_vars

(***************************************************************************)
(* Waiting for the lock: with_locked_state line 44 in both processes.      *)
(***************************************************************************)

\* Seconds of waiting for the lock after which an attempt is to give up.
LockWaitLimit == 1

\* Handler.do_POST lines 32-56: the request is read and parsed; the next thing
\* the handler does is with_locked_state
HookRequest(body) ==
    /\ hook.at = "idle"
    /\ hook' = [at |-> "flock", body |-> body]
    /\ UNCHANGED << corevars, waited, init_state, wxvars, fx >>

\* with_locked_state lines 43-44 in the webhook: flock returns with the lock
HookLock ==
    /\ hook.at = "flock"
    /\ LockFree
    /\ lock' = "hook"
    /\ hook' = [hook EXCEPT !.at = "locked"]
    /\ waited' = 0
    /\ UNCHANGED << file, incoming, processed, now, accepted, pc, tx, mem, loaded,
                    state, new_keys, request_id, net, batch, last_post, init_state, wxvars, fx >>

\* with_locked_state lines 46-65 in the webhook and do_POST lines 69-72: load,
\* store the event, replace the file, unlock, answer
HookStore ==
    /\ hook.at = "locked"
    /\ file' = do_POST(file, hook.body).file
    /\ last_post' = [ kind |-> hook.body.kind,
                      has_id |-> hook.body.kind = "object" /\ hook.body.request_id # NoRid,
                      code |-> do_POST(file, hook.body).code ]
    /\ lock' = "none"
    /\ hook' = HookIdle
    /\ waited' = 0
    /\ UNCHANGED << incoming, processed, now, accepted, pc, tx, mem, loaded,
                    state, new_keys, request_id, net, batch, init_state, wxvars, fx >>

\* the webhook handler is inside flock(lockf, LOCK_EX) and main() has the lock
HookBlocked == hook.at = "flock" /\ lock = "proc"

\* main() is inside flock(lockf, LOCK_EX) and the webhook handler has the lock
ProcBlocked == pc \in {"finalize", "admit", "register"} /\ tx = "idle" /\ lock = "hook"

\* a second passes while a caller is blocked in flock: LOCK_EX without LOCK_NB
\* and without a timer returns only when the holder has released the lock
Tick ==
    /\ HookBlocked \/ ProcBlocked
    /\ waited <= LockWaitLimit
    /\ waited' = waited + 1
    /\ UNCHANGED << corevars, hook, init_state, wxvars, fx >>

\* the system with one source object and the webhook handler taken step by step
LockNext ==
    \/ Put(KeyA)
    \/ \E rid \in HookRids, payload \in Payloads :
          /\ rid \in accepted
          /\ HookRequest(ObjectBody(rid, payload))
    \/ HookLock
    \/ HookStore
    \/ Tick
    \/ TxBegin
    \/ FinalizeApply
    \/ TxWriteTmp
    \/ TxCommit
    \/ FetchFx
    \/ ListNew
    \/ MapKey
    \/ Send
    \/ Sleep

LockSpec == Init /\ [][LockNext]_vars

\* C21 (as claimed): a caller of with_locked_state that cannot get the lock gives
\* up once it has waited LockWaitLimit seconds (LedgerBusy): no caller is blocked
\* in flock for longer.
C21_BoundedLockWait == (HookBlocked \/ ProcBlocked) => waited <= LockWaitLimit

(***************************************************************************)
(* A state file that json.load cannot read.                                *)
(***************************************************************************)

\* Something outside the two processes (the disk, an operator's editor or copy)
\* leaves bytes in processor_state.json that are not JSON.
Damage ==
    /\ file.kind = "ok"
    /\ file' = [kind |-> "corrupt", data |-> file.data]
    /\ UNCHANGED << lock, incoming, processed, now, accepted, pc, tx, mem, loaded,
                    state, new_keys, request_id, net, batch, last_post, hookvars, wxvars, fx >>

\* the system with one source object and a state file that can be damaged
DamageNext ==
    \/ Put(KeyA)
    \/ \E rid \in HookRids, payload \in Payloads : Post(rid, payload)
    \/ Damage
    \/ TxBegin
    \/ FinalizeApply
    \/ TxWriteTmp
    \/ TxCommit
    \/ Crash
    \/ FetchFx
    \/ ListNew
    \/ MapKey
    \/ Send
    \/ Sleep

DamageSpec == Init /\ [][DamageNext]_vars

\* the positions of main() inside "while True"
LoopPcs == {"finalize", "admit", "fx", "list", "map", "send", "register", "sleep"}

\* this step is with_locked_state, called by main(), raising at json.load: main()
\* leaves the call (it has not been killed: a restart would be at the finalizer)
LoadFails ==
    /\ pc \in {"finalize", "admit", "register"} /\ tx = "idle"
    /\ lock = "none" /\ file.kind = "corrupt"
    /\ pc' # pc /\ pc' # "finalize"

\* C22 (as claimed): a transaction of main() that finds the state file corrupt
\* fails without running its mutator and without writing the file, and main()
\* stops: it is at no position of its loop afterwards.
C22_CorruptLedgerIsFatal ==
    [][ LoadFails
            => /\ file' = file
               /\ tx' = "idle" /\ lock' = "none"
               /\ pc' \notin LoopPcs
      ]_vars

(***************************************************************************)
(* The loop and the failures of a cycle.                                   *)
(***************************************************************************)

\* the steps by which a cycle goes on as planned
Advances ==
    <<pc, pc'>> \in { <<"finalize", "admit">>, <<"admit", "fx">>, <<"fx", "list">>,
                      <<"list", "map">>, <<"map", "send">>, <<"send", "register">> }

\* C23: main() is always at a position of its loop. A step that ends what main()
\* was doing other than as planned (the finalizer or the admission read raising,
\* no rate, no listing or nothing listed, a key failing or being registered)
\* leads to the next key of the cycle or to the sleep, or is a restart of the
\* process; whenever main() reaches the sleep it holds no lock and has no
\* transaction open, and from the sleep it goes only to the finalizer.
C23_LoopSurvivesFailures ==
    [][ /\ pc' \in LoopPcs
        /\ (pc # "sleep" /\ pc' # pc /\ ~Advances)
              => \/ pc' = "sleep"
                 \/ pc' = "map" /\ pc \in {"map", "send", "register"}
                 \/ pc' = "finalize" /\ tx' = "idle"
        /\ pc' = "sleep" => (tx' = "idle" /\ lock' = "none")
        /\ (pc = "sleep" /\ pc' # pc) => (pc' = "finalize" /\ tx' = "idle")
      ]_vars

\* the finalizer uploaded the mapped CSV of KeyA, the delete raised, nothing was
\* written and main() is at the sleep of line 597
C23_Witness ==
    /\ pc = "sleep"
    /\ net = {UploadOp(KeyA)}
    /\ lock = "none" /\ tx = "idle"
    /\ KeyA \in PendingKeys(Ledger)
    /\ KeyA \in SeqToSet(incoming)

(***************************************************************************)
(* A cycle without a rate.                                                 *)
(***************************************************************************)

\* this step is fetch_fx_eur_usd with the XML-RPC call and the REST call failing
RateFails ==
    /\ pc = "fx"
    /\ NetOp("fx_rpc", <<"failed">>) \in net'
    /\ NetOp("fx_rest", <<"failed">>) \in net'

\* C24: when the XML-RPC call and the REST fallback both fail, main() goes to the
\* sleep with nothing listed; the step changes neither the state file nor the
\* bucket nor what the XML service has received. A listing is made only right
\* after a rate was obtained, keys are mapped, sent and registered only after a
\* listing, and from the sleep main() goes to the finalizer, so the next cycle
\* asks for the rate again before it lists.
C24_RateFailureAbortsCycle ==
    [][ /\ RateFails
            => /\ pc' = "sleep" /\ new_keys' = <<>>
               /\ file' = file /\ lock' = lock /\ tx' = tx
               /\ incoming' = incoming /\ processed' = processed
               /\ accepted' = accepted
        /\ (pc' = "list" /\ pc # "list")
            => /\ pc = "fx"
               /\ \E c \in net' : c.op \in {"fx_rpc", "fx_rest"} /\ c.key = <<"rate">>
        /\ (pc' \in {"map", "send", "register"})
            => pc \in {"list", "map", "send", "register"}
        /\ (pc = "sleep" /\ pc' # pc) => pc' = "finalize"
      ]_vars

\* both rate calls failed while KeyA waits in incoming: main() is at the sleep,
\* nothing is pending, nothing was sent
C24_Witness ==
    /\ pc = "sleep"
    /\ net = {NetOp("fx_rpc", <<"failed">>), NetOp("fx_rest", <<"failed">>)}
    /\ KeyA \in SeqToSet(incoming)
    /\ KeyA \notin ProcessedKeys
    /\ Ledger.pending_ingests = <<>>
    /\ new_keys = <<>>

(***************************************************************************)
(* weather_client.py and the enrichment of rows in write_mapped_csv.       *)
(***************************************************************************)

\* WEATHER_FAIL_STREAK_MAX, WEATHER_FAIL_COOLDOWN_SECONDS, WEATHER_CACHE_TTL_SECONDS
\* and MAX_WEATHER_CALLS_PER_FILE as configured for the runs explored, and the
\* seconds of clock explored.
FAIL_STREAK_MAX == 2

FAIL_COOLDOWN_SECONDS == 2

CACHE_TTL == 3

max_weather_calls == 3

MaxTime == 4

\* Rows by their lat and lon columns, in hundredths of a degree; <<>> is a row
\* whose lat or lon is empty. The first two quantize to one key.
Coords == { <<1012, 2014>>, <<1014, 2014>>, <<1016, 2014>> }

NoCoords == <<>>

\* round(x, 1) for x given in hundredths, in tenths (no input ends in 5, where
\* the result depends on the binary value of the float)
Quantize(x) == IF x % 10 < 5 THEN x \div 10 ELSE (x \div 10) + 1

\* write_mapped_csv lines 337-339: wkey = (round(lat, 1), round(lon, 1))
WKey(row) == << Quantize(row[1]), Quantize(row[2]) >>

\* fetch_weather lines 67-69: the key of the values already rounded, rounded again
CacheKey(wkey) == << Quantize(wkey[1] * 10), Quantize(wkey[2] * 10) >>

\* variant: the cooldown is not looked at
InCooldown_never(w, t) == FALSE

\* fetch_weather lines 63-65: now < _cooldown_until
InCooldown(w, t) == t < w.cooldown_until

\* _cache_get: the entry, unless it has expired (then it is popped)
CacheGet(w, key, t) == key \in DOMAIN w.cache /\ ~(t > w.cache[key])

CachePopped(w, key, t) ==
    IF key \in DOMAIN w.cache /\ t > w.cache[key]
    THEN [w EXCEPT !.cache = MapRemove(@, {key})]
    ELSE w

\* variant: the streak is not reset when the cooldown is opened
AfterFailure_noreset(w, t) ==
    IF w.fail_streak + 1 >= FAIL_STREAK_MAX
    THEN [w EXCEPT !.cooldown_until = t + FAIL_COOLDOWN_SECONDS,
                   !.fail_streak = @ + 1]
    ELSE [w EXCEPT !.fail_streak = @ + 1]

\* fetch_weather lines 102-109, the except branch: the streak grows, and at
\* FAIL_STREAK_MAX the cooldown is opened and the streak reset
AfterFailure(w, t) ==
    IF w.fail_streak + 1 >= FAIL_STREAK_MAX
    THEN [w EXCEPT !.cooldown_until = t + FAIL_COOLDOWN_SECONDS,
                   !.fail_streak = 0]
    ELSE [w EXCEPT !.fail_streak = @ + 1]

\* fetch_weather(lat2, lon2) at time t, the provider answering as `outcome` if it
\* is called: the module globals it leaves, what it returns, and whether the
\* provider was called. _rate_limit_sleep only lets time pass.
fetch_weather(w, wkey, t, outcome) ==
    LET key == CacheKey(wkey)
        w1 == CachePopped(w, key, t)
    IN  IF ~w.enabled
        THEN [weather |-> w, result |-> "none", called |-> FALSE]
        ELSE IF InCooldown(w, t)
        THEN [weather |-> w, result |-> "none", called |-> FALSE]
        ELSE IF CacheGet(w, key, t)
        THEN [weather |-> w, result |-> "data", called |-> FALSE]
        ELSE IF outcome = "ok"
        THEN [ weather |-> [w1 EXCEPT !.cache = MapPut(@, key, t + CACHE_TTL),
                                      !.fail_streak = 0],
               result |-> "data", called |-> TRUE ]
        ELSE [ weather |-> AfterFailure(w1, t), result |-> "none", called |-> TRUE ]

\* history: provider calls made for key k in the mapping pass m
ProviderCalls(m, k) == IF k \in DOMAIN m.provider THEN m.provider[k] ELSE 0

\* write_mapped_csv lines 286-300: a mapping pass begins
StartMapping ==
    /\ ~mapping.active
    /\ mapping' = [NoMapping EXCEPT !.active = TRUE]
    /\ UNCHANGED << corevars, hookvars, fx, weather, clock >>

\* write_mapped_csv lines 326-357 for one row
MapRow(row, outcome) ==
    /\ mapping.active
    /\ IF row = NoCoords
       THEN /\ mapping' = [mapping EXCEPT !.last = [wkey |-> <<>>, result |-> "none"]]
            /\ UNCHANGED weather
       ELSE LET wkey == WKey(row)
            IN  IF wkey \in mapping.weather_cache
                THEN /\ mapping' = [mapping EXCEPT !.last = [wkey |-> wkey, result |-> "data"]]
                     /\ UNCHANGED weather
                ELSE IF mapping.weather_calls < max_weather_calls
                THEN LET r == fetch_weather(weather, wkey, clock, outcome)
                     IN  /\ weather' = r.weather
                         /\ mapping' =
                              [ mapping EXCEPT
                                  !.weather_calls = @ + 1,
                                  !.weather_cache =
                                      IF r.result = "data" THEN @ \cup {wkey} ELSE @,
                                  !.provider =
                                      IF r.called
                                      THEN MapPut(@, wkey, ProviderCalls(mapping, wkey) + 1)
                                      ELSE @,
                                  !.last = [wkey |-> wkey, result |-> r.result] ]
                ELSE /\ mapping' = [mapping EXCEPT !.last = [wkey |-> wkey, result |-> "none"]]
                     /\ UNCHANGED weather
    /\ UNCHANGED << corevars, hookvars, fx, clock >>

\* write_mapped_csv returns: the input has no more rows
EndMapping ==
    /\ mapping.active
    /\ mapping' = [mapping EXCEPT !.active = FALSE]
    /\ UNCHANGED << corevars, hookvars, fx, weather, clock >>

\* a second passes (time.time())
Advance ==
    /\ clock < MaxTime
    /\ clock' = clock + 1
    /\ UNCHANGED << corevars, hookvars, fx, weather, mapping >>

WeatherInit ==
    /\ CoreInit
    /\ weather \in {WeatherStart(TRUE), WeatherStart(FALSE)}
    /\ mapping = NoMapping
    /\ clock = 0
    /\ fx = NoFx

\* mapping passes of the processor, one after the other, over any rows
WeatherNext ==
    \/ StartMapping
    \/ \E row \in Coords \cup {NoCoords}, outcome \in {"ok", "failed"} : MapRow(row, outcome)
    \/ EndMapping
    \/ Advance

WeatherSpec == WeatherInit /\ [][WeatherNext]_vars

\* C25 (as claimed): in one mapping pass the provider is called at most once for
\* a quantized key, whatever the first call returned.
C25_OneCallPerKey ==
    \A k \in DOMAIN mapping.provider : mapping.provider[k] <= 1

\* this step is write_mapped_csv handling a row (a row that changes nothing the
\* pass keeps is not told from no step)
RowHandled == mapping.active /\ mapping'.active /\ mapping' # mapping

\* this step calls the provider for key k
ProviderCalled(k) == ProviderCalls(mapping', k) = ProviderCalls(mapping, k) + 1

\* C26: the provider call that fails with the failure streak at
\* FAIL_STREAK_MAX - 1 opens a cooldown of FAIL_COOLDOWN_SECONDS from that moment,
\* and nothing else changes the cooldown; while the clock is inside the cooldown
\* no step calls the provider and every row that misses the pass's cache gets no
\* weather; once the clock has reached the end of the cooldown, a row that misses
\* both caches, with budget left, gets a provider call.
C26_BreakerWindow ==
    [][ LET k == mapping'.last.wkey
            opens == /\ RowHandled /\ ProviderCalled(k)
                     /\ mapping'.last.result = "none"
                     /\ weather.fail_streak + 1 = FAIL_STREAK_MAX
        IN  /\ opens => weather'.cooldown_until = clock + FAIL_COOLDOWN_SECONDS
            /\ weather'.cooldown_until # weather.cooldown_until => opens
            /\ weather.fail_streak < FAIL_STREAK_MAX
            /\ clock < weather.cooldown_until
                 => /\ \A key \in DOMAIN mapping'.provider :
                          ProviderCalls(mapping', key) <= ProviderCalls(mapping, key)
                    /\ (RowHandled /\ k # <<>> /\ k \notin mapping.weather_cache)
                          => mapping'.last.result = "none"
            /\ ( /\ RowHandled /\ k # <<>>
                 /\ weather.enabled
                 /\ clock >= weather.cooldown_until
                 /\ k \notin mapping.weather_cache
                 /\ mapping.weather_calls < max_weather_calls
                 /\ ~(k \in DOMAIN weather.cache /\ clock <= weather.cache[k]) )
                 => ProviderCalled(k)
      ]_vars

\* FAIL_STREAK_MAX provider calls of this pass failed in a row and the next
\* lookup, inside the cooldown, was answered without the provider
C26_Witness ==
    /\ mapping.active
    /\ clock < weather.cooldown_until
    /\ weather.cache = EmptyMap
    /\ mapping.weather_cache = {}
    /\ mapping.last.result = "none" /\ mapping.last.wkey # <<>>
    /\ mapping.weather_calls = FAIL_STREAK_MAX + 1
    /\ \E k1 \in DOMAIN mapping.provider :
          \/ mapping.provider[k1] = FAIL_STREAK_MAX /\ DOMAIN mapping.provider = {k1}
          \/ \E k2 \in DOMAIN mapping.provider \ {k1} :
                mapping.provider[k1] + mapping.provider[k2] = FAIL_STREAK_MAX

(***************************************************************************)
(* Network calls and the lock.                                             *)
(***************************************************************************)

\* this step of main() calls the object store, the XML service or a rate source
NetworkCall == net' # {} /\ net' # net

\* C27 (as claimed): main() makes a network call only while it does not hold the
\* lock and has no transaction open: a mutator only edits the state in memory.
C27_NoNetworkUnderLock ==
    [][ NetworkCall => (lock = "none" /\ tx = "idle") ]_vars

(***************************************************************************)
(* The pending entry and the event of one request id.                      *)
(***************************************************************************)

\* the request ids that state led holds both as a pending entry and as an event
Matched(led) == PendingRids(led) \cap DOMAIN led.webhook_events

\* C28: an id the state file holds in both maps is, after any step, in both maps
\* or in neither (also when the finalizer fails or the process is killed in the
\* middle of a finalization); and the replace that installs a finalizer's
\* transaction removes every such id from both.
C28_PairRemovedTogether ==
    [][ /\ \A rid \in Matched(Ledger) :
              (rid \in PendingRids(Ledger')) = (rid \in DOMAIN Ledger'.webhook_events)
        /\ FinalizeInstalls
              => /\ Matched(Ledger) \cap PendingRids(Ledger') = {}
                 /\ Matched(Ledger) \cap DOMAIN Ledger'.webhook_events = {}
      ]_vars

\* the finalizer is about to install a state without the pair of KeyA's request
\* while the entry of KeyB, which has no event, stays
C28_Witness ==
    /\ pc = "finalize" /\ tx = "tmp"
    /\ \E rid \in Matched(Ledger) :
          /\ rid.safe = SafeKey(KeyA)
          /\ rid \notin PendingRids(mem)
          /\ rid \notin DOMAIN mem.webhook_events
    /\ KeyB \in PendingKeys(mem)
    /\ Matched(mem) = {}

(***************************************************************************)
(* Events whose status is missing or is no status value.                   *)
(***************************************************************************)

\* C29 (as claimed): whatever events the webhook has stored, the finalizer's
\* mutator does not raise, and every pending entry whose event has no status or
\* a status other than OK ends with a failure outcome recorded for its key and
\* with the entry and the event removed.
C29_MalformedStatusIsFailure ==
    LET r == FinalizeTx(LoadState(file))
    IN  /\ ~r.raised
        /\ \A i \in DOMAIN Ledger.pending_ingests :
              LET e == Ledger.pending_ingests[i]
              IN  (e.request_id \in DOMAIN Ledger.webhook_events
                      /\ ~EventStatus(Ledger, e, "OK"))
                     => /\ e.source_key \in DOMAIN r.state.ingest_results
                        /\ r.state.ingest_results[e.source_key].status # "OK"
                        /\ e.request_id \notin PendingRids(r.state)
                        /\ e.request_id \notin DOMAIN r.state.webhook_events

(***************************************************************************)
(* Entries and events the finalizer does not match.                        *)
(***************************************************************************)

\* the source keys of the pending entries of led that have an event
MatchedKeys(led) ==
    { led.pending_ingests[i].source_key :
        i \in { j \in DOMAIN led.pending_ingests :
                  led.pending_ingests[j].request_id \in DOMAIN led.webhook_events } }

\* C30: run on the state file as it is, the finalizer's mutator keeps, as they
\* are and in their order, the pending entries that have no event, and keeps, as
\* they are, the events that have no pending entry; it makes object-store calls
\* only for keys of matched entries, and changes processed_keys and the outcomes
\* only for such keys; with nothing matched it changes nothing at all.
C30_UnmatchedUntouched ==
    LET led == LoadState(file)
        r == FinalizeTx(led)
    IN  /\ SelectSeq(led.pending_ingests,
                     LAMBDA e : e.request_id \notin DOMAIN led.webhook_events)
              = r.state.pending_ingests
        /\ \A rid \in DOMAIN led.webhook_events \ PendingRids(led) :
              /\ rid \in DOMAIN r.state.webhook_events
              /\ r.state.webhook_events[rid] = led.webhook_events[rid]
        /\ \A o \in SeqToSet(r.ops) : o.key \in MatchedKeys(led)
        /\ SeqToSet(r.state.processed_keys) \ SeqToSet(led.processed_keys)
              \subseteq MatchedKeys(led)
        /\ \A k \in Keys \ MatchedKeys(led) :
              /\ (k \in DOMAIN r.state.ingest_results) = (k \in DOMAIN led.ingest_results)
              /\ k \in DOMAIN led.ingest_results
                    => r.state.ingest_results[k] = led.ingest_results[k]
        /\ Matched(led) = {} => (r.ops = <<>> /\ r.state = led)

\* the finalizer has run on a state with an entry for KeyB that has no event and
\* an event for a request of KeyA that has no entry, and has kept both
C30_Witness ==
    /\ pc = "finalize" /\ tx = "applied"
    /\ mem = Ledger
    /\ KeyB \in PendingKeys(mem)
    /\ \E rid \in DOMAIN mem.webhook_events :
          rid.safe = SafeKey(KeyA) /\ rid \notin PendingRids(mem)

(***************************************************************************)
(* A callback that arrives before the registration.                        *)
(***************************************************************************)

\* main() is inside the registration of request_id, past the mutator, and the
\* state file already holds an event for that id
EarlyEvent ==
    /\ pc = "register" /\ tx \in {"applied", "tmp"}
    /\ request_id \in DOMAIN Ledger.webhook_events

\* C31: when the webhook has stored the event of a request between the
\* submission and the registration, the state the registration is about to
\* install holds the events of the file as they are and the pending entry of the
\* request, and the finalizer, run on that state, finalizes the entry according
\* to the event: upload, delete and processed_keys exactly when its status is OK,
\* the outcome of the key with the event's status and error, entry and event
\* removed.
C31_EarlyEventKept ==
    EarlyEvent
        => LET ev == Ledger.webhook_events[request_id]
               key == Head(new_keys)
               r == FinalizeTx(mem)
           IN  /\ mem.webhook_events = Ledger.webhook_events
               /\ \E i \in DOMAIN mem.pending_ingests :
                     mem.pending_ingests[i] = [request_id |-> request_id, source_key |-> key]
               /\ ~r.raised
               /\ request_id \notin PendingRids(r.state)
               /\ request_id \notin DOMAIN r.state.webhook_events
               /\ (UploadOp(key) \in SeqToSet(r.ops)) = (ev.status = "OK")
               /\ (DeleteOp(key) \in SeqToSet(r.ops)) = (ev.status = "OK")
               /\ (key \in SeqToSet(r.state.processed_keys)) = (ev.status = "OK")
               /\ r.state.ingest_results[key] = ev

\* the callback for KeyA's request came in before the registration, which is now
\* about to be installed
C31_Witness ==
    /\ pc = "register" /\ tx = "tmp"
    /\ Head(new_keys) = KeyA
    /\ request_id \in DOMAIN Ledger.webhook_events
    /\ Ledger.webhook_events[request_id].status = "OK"
    /\ request_id \notin PendingRids(Ledger)
    /\ request_id \in PendingRids(mem)

(***************************************************************************)
(* An object-store call that fails inside the finalizer.                   *)
(***************************************************************************)

\* this step is the finalizer's transaction ending without its mutator having
\* run to its end: an upload or a delete raised (or the process was killed there)
FinalizeFails == pc = "finalize" /\ tx = "loaded" /\ tx' = "idle"

\* C32: when an upload or a delete fails inside the finalizer, the state file is
\* left exactly as it was, whatever uploads and deletes of that run had already
\* been done, the lock is released and main() is at the sleep (or, killed, back
\* at the start); every id that has a pending entry and an event then still has
\* both. From the sleep main() goes to the finalizer, whose transaction loads
\* the state file as it is, and no step other than the replace of a finalizer's
\* transaction takes a matched pair out of the file: the next run attempts the
\* same entries.
C32_FailedFinalizePersistsNothing ==
    [][ /\ FinalizeFails
            => /\ file' = file
               /\ lock' = "none"
               /\ pc' \in {"sleep", "finalize"}
               /\ net' \subseteq SeqToSet(FinalizeTx(mem).ops)
               /\ Matched(Ledger') = Matched(mem)
        /\ (pc = "sleep" /\ pc' # pc) => pc' = "finalize"
        /\ (pc = "finalize" /\ tx = "idle" /\ tx' = "loaded") => mem' = LoadState(file)
        /\ ~FinalizeInstalls => Matched(Ledger) \subseteq Matched(Ledger')
      ]_vars

\* the run uploaded and deleted for KeyA, then the upload for KeyB raised: both
\* entries and both events are still in the file, main() is at the sleep
C32_Witness ==
    /\ pc = "sleep" /\ lock = "none" /\ tx = "idle"
    /\ net = {UploadOp(KeyA), DeleteOp(KeyA)}
    /\ KeyA \notin SeqToSet(incoming)
    /\ OutKey(KeyA) \in DOMAIN processed
    /\ KeyA \notin ProcessedKeys
    /\ {KeyA, KeyB} \subseteq MatchedKeys(Ledger)
    /\ KeyB \in SeqToSet(incoming)
    /\ \A rid \in Matched(Ledger) : Ledger.webhook_events[rid].status = "OK"

(***************************************************************************)
(* Progress: pending entries are finalized and new work is admitted.       *)
(***************************************************************************)

\* the steps of main(), a sequential process: the one its position allows
ProcStep ==
    \/ TxBegin
    \/ FinalizeApply
    \/ TxWriteTmp
    \/ TxCommit
    \/ FetchFx
    \/ ListNew
    \/ MapKey
    \/ Send
    \/ Sleep

\* the finalizer's mutator running to its end: every upload and delete it makes
\* succeeds
FinalizeSucceeds == FinalizeApply /\ tx' = "applied"

\* the XML service's callback for a request that has a pending entry is handled
\* by the webhook
Delivery(rid) ==
    /\ rid \in PendingRids(Ledger)
    /\ \E payload \in Payloads : Post(rid, payload)

\* the system with one source object and a processor that is not killed
LiveNext ==
    \/ Put(KeyA)
    \/ \E rid \in HookRids, payload \in Payloads : Post(rid, payload)
    \/ TxBegin
    \/ FinalizeApply
    \/ TxWriteTmp
    \/ TxCommit
    \/ FetchFx
    \/ ListNew
    \/ MapKey
    \/ Send
    \/ Sleep

\* main() keeps taking steps; the object store, failing or not, succeeds again
\* and again; the webhook, while an entry is pending, gets the lock and the
\* callback for it again and again
LiveSpec ==
    /\ Init
    /\ [][LiveNext]_vars
    /\ WF_vars(ProcStep)
    /\ SF_vars(FinalizeSucceeds)
    /\ \A rid \in HookRids : SF_vars(Delivery(rid))

LoadShared(f, init) == IF f.kind = "ok" THEN f.data ELSE init

\* INIT_STATE after fn has edited, in place, the state loaded from f into st
SharedAfter(f, init, st) == IF f.kind = "ok" THEN init ELSE st

\* Handler.do_POST, the whole handler, in a webhook process whose state file may
\* not exist and whose disk may refuse a write: _atomic_write_json raises
\* (mkstemp, fsync or replace failing), the state file stays as it is, the
\* handler sends no answer and the server goes on with the next request
SharedPost(body, wrote) ==
    /\ LockFree
    /\ file.kind # "corrupt"
    /\ body.kind # "nonobject"
    /\ LET payload == ParsedPayload(body)
           rid == IF payload.request_id = NoRid THEN UnknownRid ELSE payload.request_id
           st == WebhookTx(LoadShared(file, init_state), rid,
                           [status |-> payload.status, error |-> payload.error])
       IN  /\ init_state' = SharedAfter(file, init_state, st)
           /\ file' = IF wrote THEN OkFile(st) ELSE file
           /\ last_post' = [ kind |-> body.kind,
                             has_id |-> body.kind = "object" /\ body.request_id # NoRid,
                             code |-> IF wrote THEN "200" ELSE "raised" ]
    /\ UNCHANGED << lock, incoming, processed, now, accepted, pc, tx, mem, loaded,
                    state, new_keys, request_id, net, batch, hook, waited, wxvars, fx >>

\* the bodies posted to a webhook that runs before the processor does: objects
\* with a request id of KeyA or without one
SharedBodies ==
    { ObjectBody(r, p) : r \in HookRids \cup {NoRid}, p \in Payloads }

\* the webhook process alone, from a start without a state file
SharedNext ==
    \E body \in SharedBodies, wrote \in BOOLEAN : SharedPost(body, wrote)

SharedSpec == Init /\ [][SharedNext]_vars

\* C34 (as claimed): with no state file, the state the next transaction's mutator
\* is given is the empty initial state, whatever earlier transactions of the
\* process did before they failed.
C34_AbsentFileLoadsEmptyState ==
    file.kind = "absent" => LoadShared(file, init_state) = INIT_STATE

(***************************************************************************)
(* The keys of the processed area.                                         *)
(***************************************************************************)

\* "incoming/b.csv": with KeyC, "incoming/a/b.csv", two keys under the incoming
\* prefix whose os.path.basename is the same (the listing of line 213 has no
\* Delimiter, it returns the keys of every depth)
KeyE == <<"incoming", "/", "b", ".csv">>

NestedKeys == {KeyC, KeyE}

NestedRids == { RequestId(k, t) : k \in NestedKeys, t \in 0..MaxClock }

\* the system with these two objects in the bucket instead of the crawler's
NestedNext ==
    \/ \E k \in NestedKeys : Put(k)
    \/ \E rid \in NestedRids, payload \in Payloads : Post(rid, payload)
    \/ TxBegin
    \/ FinalizeApply
    \/ TxWriteTmp
    \/ TxCommit
    \/ Crash
    \/ FetchFx
    \/ ListNew
    \/ MapKey
    \/ Send
    \/ Sleep

NestedSpec == Init /\ [][NestedNext]_vars

\* C35 (as claimed): two distinct committed source keys have distinct keys in the
\* processed area, and the object under the processed key of a committed source
\* key is the mapped CSV of that source key: no later finalization has
\* overwritten it.
C35_DistinctProcessedKeys ==
    /\ \A k1, k2 \in ProcessedKeys : k1 # k2 => OutKey(k1) # OutKey(k2)
    /\ \A k \in ProcessedKeys :
          OutKey(k) \in DOMAIN processed /\ processed[OutKey(k)] = k

(***************************************************************************)
(* The listing of a cycle and the order in which its keys are taken.       *)
(***************************************************************************)

\* this step is list_new_csv_objects returning keys to main()
ListReturns == pc = "list" /\ pc' = "map"

RateInit ==
    /\ CoreInit
    /\ weather = WeatherStart(TRUE)
    /\ mapping = NoMapping
    /\ clock = 0
    /\ fx \in { [rpc |-> rpc, rest |-> rest, rate |-> "none", calls |-> <<>>] :
                 rpc \in RpcOutcomes, rest \in RestOutcomes }

\* fetch_fx_eur_usd(): its result ("raises": it raised) and the calls it made
ResolveRate ==
    /\ fx.rate = "none"
    /\ fx' = [ fx EXCEPT !.rate = fetch_fx_eur_usd(fx.rpc, fx.rest),
                         !.calls = FxCallsMade(fx.rpc, fx.rest) ]
    /\ UNCHANGED << corevars, hookvars, wxvars >>

RateNext == ResolveRate

RateSpec == RateInit /\ [][RateNext]_vars

Cached(w, wkey, t) ==
    CacheKey(wkey) \in DOMAIN w.cache /\ t <= w.cache[CacheKey(wkey)]

\* C38 (as claimed): a row whose quantized key has an unexpired entry in the
\* client's cache (or an entry in the cache of the pass) gets the cached weather,
\* with no provider call, also when the budget of the pass is used up or the
\* cooldown is on.
C38_CacheBeforeBudgetAndBreaker ==
    [][ LET k == mapping'.last.wkey
        IN  ( /\ RowHandled /\ k # <<>>
              /\ weather.enabled
              /\ k \in mapping.weather_cache \/ Cached(weather, k, clock) )
                => /\ mapping'.last.result = "data"
                   /\ \A key \in DOMAIN mapping'.provider :
                         ProviderCalls(mapping', key) = ProviderCalls(mapping, key)
      ]_vars

\* history: provider calls made in the mapping pass m, over all keys
PassProviderCalls(m) ==
    Cardinality({ c \in (DOMAIN m.provider) \X (1..max_weather_calls) :
                    c[2] <= m.provider[c[1]] })

\* C39 (as claimed): in a mapping pass the provider is called at most
\* max_weather_calls times; a row that misses the cache of the pass is skipped for
\* lack of budget only when the provider has been called max_weather_calls times
\* in the pass, and a lookup answered without the provider (by the client's
\* cache, the disabled switch or the cooldown) leaves the budget as it is.
C39_BudgetCountsProviderCalls ==
    [][ LET k == mapping'.last.wkey
        IN  /\ PassProviderCalls(mapping') <= max_weather_calls
            /\ (RowHandled /\ PassProviderCalls(mapping') = PassProviderCalls(mapping))
                  => mapping'.weather_calls = mapping.weather_calls
            /\ ( /\ RowHandled /\ k # <<>>
                 /\ k \notin mapping.weather_cache
                 /\ mapping.weather_calls >= max_weather_calls )
                  => PassProviderCalls(mapping) = max_weather_calls
      ]_vars

(***************************************************************************)
(* The failure streak.                                                     *)
(***************************************************************************)

\* this step calls the provider, for the key of the row handled
ProviderStep == RowHandled /\ ProviderCalled(mapping'.last.wkey)

\* C40: the streak counts the provider calls that failed since the last one that
\* succeeded or opened the cooldown: a call that succeeds sets it to zero, a call
\* that fails adds one, and a step without provider call leaves it; it is always
\* below FAIL_STREAK_MAX. The cooldown is opened (set) only by the failing call
\* that finds the streak at FAIL_STREAK_MAX - 1, and that call sets the streak to
\* zero: FAIL_STREAK_MAX failed calls with no success among them are needed to
\* open it, the first time and every time after.
C40_StreakOpensCircuit ==
    [][ LET failed == ProviderStep /\ mapping'.last.result = "none"
            succeeded == ProviderStep /\ mapping'.last.result = "data"
            opens == failed /\ weather.fail_streak = FAIL_STREAK_MAX - 1
        IN  /\ weather.fail_streak \in 0..(FAIL_STREAK_MAX - 1)
            /\ succeeded
                 => (weather'.fail_streak = 0
                        /\ weather'.cooldown_until = weather.cooldown_until)
            /\ (failed /\ ~opens)
                 => (weather'.fail_streak = weather.fail_streak + 1
                        /\ weather'.cooldown_until = weather.cooldown_until)
            /\ opens
                 => (weather'.fail_streak = 0
                        /\ weather'.cooldown_until = clock + FAIL_COOLDOWN_SECONDS)
            /\ ~ProviderStep
                 => (weather'.fail_streak = weather.fail_streak
                        /\ weather'.cooldown_until = weather.cooldown_until)
      ]_vars

\* the cooldown was opened and has elapsed, and since then FAIL_STREAK_MAX - 1
\* provider calls have failed: the cooldown is not open again
C40_Witness ==
    /\ mapping.active
    /\ weather.cooldown_until > 0
    /\ clock >= weather.cooldown_until
    /\ weather.fail_streak = FAIL_STREAK_MAX - 1
    /\ mapping.last.result = "none"
    /\ PassProviderCalls(mapping) >= 1

====
